---------------------------- MODULE Spec2Model ----------------------------
(***************************************************************************)
(* Model of the course notebooks' own control flow: the wait_for_model     *)
(* polling helper of "ML 05L - MLflow Lab.py" and the sequence of          *)
(* model-registry requests and suspensions the notebooks issue.            *)
(*                                                                         *)
(* The registry itself is an external service: what a request answers is   *)
(* chosen by the environment (any stage/status pair, or a failure).        *)
(***************************************************************************)
EXTENDS Integers, Sequences, FiniteSets, TLC

(***************************************************************************)
(* Bounds of the model.                                                    *)
(***************************************************************************)
\* largest explicit timeout argument a caller passes
MaxTimeout == 5
\* largest number of versions search_model_versions answers with
MaxVersions == 3

(***************************************************************************)
(* Python values.  A value is tagged with its type so that str() and the   *)
(* f-string conversion are real conversions: str(None) and "None" are      *)
(* different values that convert to the same text.                         *)
(***************************************************************************)
PyNone == <<"none">>
PyStr(s) == <<"str", s>>
PyInt(n) == <<"int", n>>
\* a keyword argument the caller did not pass
Omitted == <<"omitted">>

\* str(v) for the values the helper converts: None and strings
Str(v) == IF v = PyNone THEN "None" ELSE v[2]

\* an argument, or the default of the def line when it was not passed
Default(arg, dflt) == IF arg = Omitted THEN dflt ELSE arg

\* def wait_for_model(model_name, version, stage="None", status="READY", timeout=300)
DefaultStage == PyStr("None")
DefaultStatus == PyStr("READY")
DefaultTimeout == 300

(***************************************************************************)
(* What the registry can report for a model version.                       *)
(***************************************************************************)
Stages == {"None", "Staging", "Production", "Archived"}
Statuses == {"PENDING_REGISTRATION", "READY"}
\* the object get_model_version returns: current_stage and status
Observations == [current_stage : {PyStr(s) : s \in Stages},
                 status : {PyStr(s) : s \in Statuses}]
NoObservation == [current_stage |-> PyNone, status |-> PyNone]


(***************************************************************************)
(* A notebook as the sequence of its blocking steps.  A step is a remote   *)
(* request, a time.sleep, or a call of wait_for_model; "line" is the line  *)
(* of the notebook the step stands on.                                     *)
(***************************************************************************)
\* a name of the notebook that a step passes as version
Ref(name) == <<"ref", name>>

Request(line, op, version, stage) ==
    [kind |-> "request", line |-> line, op |-> op, version |-> version,
     stage |-> stage, status |-> Omitted, timeout |-> Omitted,
     seconds |-> 0, caught |-> FALSE, name |-> "", arg |-> ""]

\* a request that needs no version or stage
Remote(line, op) == Request(line, op, Omitted, Omitted)

\* try: <step> except: None
Try(step) == [step EXCEPT !.caught = TRUE]

\* time.sleep(seconds) in a notebook cell
SleepStep(line, seconds) ==
    [kind |-> "sleep", line |-> line, op |-> "time.sleep", version |-> Omitted,
     stage |-> Omitted, status |-> Omitted, timeout |-> Omitted,
     seconds |-> seconds, caught |-> FALSE]

\* wait_for_model(model_name, version, stage, status, timeout); an argument
\* the call does not pass is Omitted
WaitCall(line, version, stage, status, timeout) ==
    [kind |-> "wait", line |-> line, op |-> "wait_for_model", version |-> version,
     stage |-> stage, status |-> status, timeout |-> timeout,
     seconds |-> 0, caught |-> FALSE]

\* the calls of the notebooks pass the stage at most
\* (variant: the cell calls wait_for_model without the stage)
WaitStepWithoutStage(line, version, stage) ==
    WaitCall(line, version, Omitted, Omitted, Omitted)

WaitStep(line, version, stage) == WaitCall(line, version, stage, Omitted, Omitted)

\* transition_model_version_stage(..., archive_existing_versions=True)
ArchiveExisting(step) == [step EXCEPT !.op = "transition_model_version_stage(archive_existing_versions)"]

\* a request that names a notebook variable and one more argument
Named(line, op, name, arg) == [Remote(line, op) EXCEPT !.name = name, !.arg = arg]

\* dbutils.fs.rm(path, True)
Remove(line, path) == Named(line, "dbutils.fs.rm", "", path)
\* data.write.mode("overwrite").format("delta").save(path)
Write(line, data, path) == Named(line, "write", data, path)
\* name = spark.read.format("delta").option("versionAsOf", data_version).load(path)
Read(line, name, path) == Named(line, "read", name, path)
\* with mlflow.start_run(run_name=name) as run
StartRun(line, name) == Named(line, "mlflow.start_run", name, "")
\* mlflow.log_param(key, name): the value logged is the one the name holds
LogParam(line, key, name) == Named(line, "mlflow.log_param", name, key)
\* pipeline.fit(name)
Fit(line, name) == Named(line, "fit", name, "")

\* a statement of a cell that calls no service: an assignment name = value,
\* the construction of an object from its parts, or a call of a setter
Assign(line, name, value) ==
    [kind |-> "statement", line |-> line, op |-> "assign", name |-> name,
     arg |-> value, caught |-> FALSE]
Construct(line, name, class, parts) ==
    [kind |-> "statement", line |-> line, op |-> class, name |-> name,
     arg |-> parts, caught |-> FALSE]
SetParam(line, name, param, value) ==
    [kind |-> "statement", line |-> line, op |-> "set", name |-> name,
     arg |-> <<param, value>>, caught |-> FALSE]

(***************************************************************************)
(* "Solutions/Labs/ML 05L - MLflow Lab.py"                                 *)
(***************************************************************************)
\* (variant: the cell sleeps for a fixed time instead of polling)
LabSleepsForStaging == << SleepStep(198, 10) >>

\* the cell of line 198: block until version 1 is in Staging
LabWaitsForStaging == << WaitStep(198, PyInt(1), PyStr("Staging")) >>

LabScript ==
    << Remove(58, "train_delta_path"), Remove(59, "test_delta_path"),
       Write(61, "train_df", "train_delta_path"), Write(62, "test_df", "test_delta_path"),
       Assign(73, "data_version", PyInt(0)),
       Read(74, "train_delta", "train_delta_path"), Read(75, "test_delta", "test_delta_path"),
       Remote(85, "spark.sql"),
       StartRun(113, "lr_model"),
       Remote(115, "mlflow.log_param"), LogParam(116, "data_version", "data_version"),
       Remote(117, "mlflow.log_param"),
       Construct(120, "r_formula", "RFormula", <<>>),
       Construct(121, "lr", "LinearRegression", <<>>),
       Construct(122, "pipeline", "Pipeline", <<"r_formula", "lr">>),
       Fit(123, "train_delta"),
       Remote(126, "mlflow.spark.log_model"),
       Construct(130, "regression_evaluator", "RegressionEvaluator", <<>>),
       SetParam(131, "regression_evaluator", "metricName", "rmse"),
       Remote(131, "evaluate"),
       SetParam(132, "regression_evaluator", "metricName", "r2"),
       Remote(132, "evaluate"),
       Remote(135, "mlflow.log_metric"), Remote(136, "mlflow.log_metric"),
       Remote(155, "mlflow.register_model"),
       Request(169, "transition_model_version_stage", PyInt(1), PyStr("Staging")) >>
    \o LabWaitsForStaging \o
    << Remote(209, "update_registered_model"),
       WaitStep(216, PyInt(1), PyStr("Staging")),
       Write(246, "train_new", "train_delta_path"), Write(247, "test_new", "test_delta_path"),
       Remote(267, "spark.sql"),
       Assign(271, "data_version", PyInt(1)),
       Read(272, "train_delta_new", "train_delta_path"), Read(273, "test_delta_new", "test_delta_path"),
       StartRun(285, "lr_log_model"),
       Remote(287, "mlflow.log_param"), LogParam(288, "data_version", "data_version"),
       Remote(289, "mlflow.log_param"),
       Construct(292, "r_formula", "RFormula", <<>>),
       Construct(293, "lr", "LinearRegression", <<>>),
       Construct(294, "pipeline", "Pipeline", <<"r_formula", "lr">>),
       Fit(295, "train_delta_new"),
       Remote(298, "mlflow.spark.log_model(registered_model_name)"),
       SetParam(307, "regression_evaluator", "metricName", "rmse"),
       Remote(307, "evaluate"),
       SetParam(308, "regression_evaluator", "metricName", "r2"),
       Remote(308, "evaluate"),
       Remote(311, "mlflow.log_metric"), Remote(312, "mlflow.log_metric"),
       Remote(331, "mlflow.search_runs"), Remote(338, "mlflow.search_runs"),
       Remote(356, "search_model_versions"),
       Request(361, "update_model_version", Ref("new_model_version"), Omitted),
       Request(369, "get_model_version", Ref("new_model_version"), Omitted),
       WaitStep(374, Ref("new_model_version"), Omitted),
       Request(380, "transition_model_version_stage", Ref("new_model_version"), PyStr("Production")),
       WaitStep(388, Ref("new_model_version"), PyStr("Production")),
       Request(404, "transition_model_version_stage", PyInt(1), PyStr("Archived")),
       WaitStep(412, PyInt(1), PyStr("Archived")),
       Request(416, "transition_model_version_stage", PyInt(2), PyStr("Archived")),
       WaitStep(424, PyInt(2), PyStr("Archived")),
       Remote(428, "delete_registered_model") >>

(***************************************************************************)
(* "Solutions/ML 05 - MLflow Model Registry.py"                            *)
(***************************************************************************)
RegistryScript ==
    << Remote(79, "read"),
       Remote(82, "mlflow.start_run"),
       Remote(85, "fit"),
       Remote(108, "mlflow.register_model"),
       Request(130, "get_model_version", PyInt(1), Omitted),
       Remote(140, "update_registered_model"),
       Request(151, "update_model_version", Ref("model_details.version"), Omitted),
       SleepStep(173, 10),
       Request(177, "transition_model_version_stage", Ref("model_details.version"), PyStr("Production")),
       Request(189, "get_model_version", Ref("model_details.version"), Omitted),
       Request(208, "mlflow.pyfunc.load_model", PyInt(1), Omitted),
       Remote(232, "mlflow.start_run"),
       Remote(241, "mlflow.sklearn.log_model(registered_model_name)"),
       Remote(247, "mlflow.log_params"),
       Remote(248, "mlflow.log_metric"),
       SleepStep(258, 10),
       Request(260, "transition_model_version_stage", PyInt(2), PyStr("Staging")),
       Remote(278, "search_model_versions"),
       Request(287, "update_model_version", Ref("new_model_version"), Omitted),
       ArchiveExisting(Request(299, "transition_model_version_stage", Ref("new_model_version"), PyStr("Production"))),
       Request(314, "delete_model_version", PyInt(1), Omitted),
       Request(325, "transition_model_version_stage", PyInt(2), PyStr("Archived")),
       Remote(337, "delete_registered_model") >>

(***************************************************************************)
(* "Solutions/ML 10 - Feature Store.py"                                    *)
(***************************************************************************)
FeatureStoreScript ==
    << Remote(46, "read"),
       Remote(55, "spark.sql"),
       Remote(102, "fs.create_table"),
       Remote(155, "fs.get_table"), Remote(159, "fs.get_table"),
       Remote(192, "fs.create_training_set"),
       Remote(193, "load_df"),
       Try(Remote(218, "delete_registered_model")),
       Remote(229, "mlflow.start_run"),
       Remote(235, "mlflow.log_metric"), Remote(236, "mlflow.log_metric"),
       Remote(238, "fs.log_model(registered_model_name)"),
       Request(285, "fs.score_batch", PyInt(1), Omitted),
       Remote(318, "fs.write_table"),
       Remote(349, "fs.read_table") >>

(***************************************************************************)
(* The notebooks without registry requests: reads, fits and evaluations.   *)
(***************************************************************************)
\* "Solutions/ML 02 - Linear Regression I.py"
LinearRegressionIScript ==
    << Remote(25, "read"), Remote(39, "count"), Remote(52, "count"),
       Construct(86, "lr", "LinearRegression", <<>>),
       Construct(105, "vec_assembler", "VectorAssembler", <<>>),
       Construct(111, "lr", "LinearRegression", <<>>),
       Remote(112, "fit"), Remote(136, "show"),
       Construct(148, "regression_evaluator", "RegressionEvaluator", <<>>),
       Remote(150, "evaluate") >>

\* "Solutions/ML 03 - Linear Regression II.py"
LinearRegressionIIScript ==
    << Remote(26, "read"),
       Construct(60, "string_indexer", "StringIndexer", <<>>),
       Construct(61, "ohe_encoder", "OneHotEncoder", <<>>),
       Construct(76, "vec_assembler", "VectorAssembler", <<>>),
       Construct(88, "lr", "LinearRegression", <<>>),
       Construct(103, "pipeline", "Pipeline",
                 <<"string_indexer", "ohe_encoder", "vec_assembler", "lr">>),
       Remote(105, "fit"), Remote(115, "save"),
       Remote(129, "load"), Remote(140, "display"),
       Construct(152, "regression_evaluator", "RegressionEvaluator", <<>>),
       Remote(154, "evaluate"),
       SetParam(155, "regression_evaluator", "metricName", "r2"),
       Remote(155, "evaluate") >>

\* "Solutions/ML Electives/MLE 03 - Logistic Regression Lab.py"
LogisticRegressionLabScript ==
    << Remote(27, "read"),
       Construct(67, "mc_evaluator", "MulticlassClassificationEvaluator", <<>>),
       Remote(68, "evaluate"), Remote(79, "count"),
       Construct(104, "r_formula", "RFormula", <<>>),
       Construct(109, "lr", "LogisticRegression", <<>>),
       Construct(110, "pipeline", "Pipeline", <<"r_formula", "lr">>),
       Remote(111, "fit"),
       Construct(125, "mc_evaluator", "MulticlassClassificationEvaluator", <<>>),
       Remote(126, "evaluate"),
       Construct(128, "bc_evaluator", "BinaryClassificationEvaluator", <<>>),
       Remote(129, "evaluate"),
       SetParam(131, "bc_evaluator", "metricName", "areaUnderPR"),
       Remote(132, "evaluate"),
       Construct(151, "cv", "CrossValidator", <<"lr", "mc_evaluator">>),
       Construct(154, "pipeline", "Pipeline", <<"r_formula", "cv">>),
       Remote(156, "fit"),
       Construct(166, "mc_evaluator", "MulticlassClassificationEvaluator", <<>>),
       Remote(167, "evaluate"),
       Construct(169, "bc_evaluator", "BinaryClassificationEvaluator", <<>>),
       Remote(170, "evaluate") >>

\* "Solutions/Labs/ML 07L - Hyperparameter Tuning Lab.py"
HyperparameterTuningLabScript ==
    << Remote(42, "read"),
       Construct(55, "string_indexer", "StringIndexer", <<>>),
       Construct(59, "vec_assembler", "VectorAssembler", <<>>),
       Construct(82, "rf", "RandomForestClassifier", <<>>),
       Construct(125, "evaluator", "BinaryClassificationEvaluator", <<>>),
       Construct(140, "cv", "CrossValidator", <<"rf", "evaluator">>),
       Construct(153, "pipeline", "Pipeline", <<"string_indexer", "vec_assembler", "cv">>),
       Remote(155, "fit"), Remote(197, "evaluate"),
       Remote(209, "save") >>

\* "ML 06 - Decision Trees.py"
DecisionTreesScript ==
    << Remote(26, "read"),
       Construct(47, "string_indexer", "StringIndexer", <<>>),
       Construct(63, "vec_assembler", "VectorAssembler", <<>>),
       Construct(75, "dt", "DecisionTreeRegressor", <<>>),
       Construct(89, "pipeline", "Pipeline", <<"string_indexer", "vec_assembler", "dt">>),
       SetParam(118, "dt", "maxBins", 40),
       Remote(126, "fit"), Remote(190, "display"),
       Construct(204, "regression_evaluator", "RegressionEvaluator", <<>>),
       Remote(206, "evaluate"),
       SetParam(207, "regression_evaluator", "metricName", "r2"),
       Remote(207, "evaluate") >>

\* "ML 07 - Random Forests and Hyperparameter Tuning.py"
RandomForestsScript ==
    << Remote(29, "read"),
       Construct(35, "string_indexer", "StringIndexer", <<>>),
       Construct(39, "vec_assembler", "VectorAssembler", <<>>),
       Construct(41, "rf", "RandomForestRegressor", <<>>),
       Construct(43, "pipeline", "Pipeline", <<"string_indexer", "vec_assembler", "rf">>),
       Construct(105, "evaluator", "RegressionEvaluator", <<>>),
       Construct(107, "cv", "CrossValidator", <<"pipeline", "evaluator">>),
       Remote(116, "fit"),
       SetParam(130, "cv", "parallelism", 4),
       Remote(130, "fit"),
       Construct(143, "cv", "CrossValidator", <<"rf", "evaluator">>),
       Construct(147, "pipeline", "Pipeline", <<"string_indexer", "vec_assembler", "cv">>),
       Remote(149, "fit"), Remote(164, "evaluate"),
       SetParam(165, "evaluator", "metricName", "r2"),
       Remote(165, "evaluate") >>

\* "ML 14 - Pandas API on Spark.py"
PandasAPIScript ==
    << Remote(91, "read"), Remote(115, "read"), Remote(127, "read"),
       Remote(141, "display"), Remote(150, "display"), Remote(158, "display"),
       Remote(170, "display"), Remote(178, "value_counts"),
       Remote(191, "plot"), Remote(199, "sql") >>

\* "Labs/ML 12L - Pandas UDF Lab.py" (up to its first unfinished cell)
PandasUDFLabScript ==
    << Remote(33, "mlflow.start_run"), Remote(43, "fit"),
       Remote(52, "spark.createDataFrame") >>

(***************************************************************************)
(* A direct call of wait_for_model, as a test of the helper makes it: any  *)
(* target stage and status with any small timeout, each passed or left     *)
(* out; and the calls that leave the timeout out, as the notebooks do.     *)
(***************************************************************************)
CallStages == {Omitted, PyNone} \cup {PyStr(s) : s \in Stages}
CallStatuses == {Omitted} \cup {PyStr(s) : s \in Statuses}
CallTimeouts == {PyInt(n) : n \in -1..MaxTimeout}
DirectCalls ==
    { << WaitCall(178, PyInt(1), st, ss, t) >> :
        st \in CallStages, ss \in CallStatuses, t \in CallTimeouts }
    \cup
    { << WaitCall(178, PyInt(1), st, Omitted, Omitted) >> :
        st \in {Omitted, PyStr("Staging")} }

Scripts ==
    { [name |-> "ML 05L - MLflow Lab", steps |-> LabScript],
      [name |-> "ML 05 - MLflow Model Registry", steps |-> RegistryScript],
      [name |-> "ML 10 - Feature Store", steps |-> FeatureStoreScript],
      [name |-> "ML 02 - Linear Regression I", steps |-> LinearRegressionIScript],
      [name |-> "ML 03 - Linear Regression II", steps |-> LinearRegressionIIScript],
      [name |-> "MLE 03 - Logistic Regression Lab", steps |-> LogisticRegressionLabScript],
      [name |-> "ML 07L - Hyperparameter Tuning Lab", steps |-> HyperparameterTuningLabScript],
      [name |-> "ML 06 - Decision Trees", steps |-> DecisionTreesScript],
      [name |-> "ML 07 - Random Forests and Hyperparameter Tuning", steps |-> RandomForestsScript],
      [name |-> "ML 14 - Pandas API on Spark", steps |-> PandasAPIScript],
      [name |-> "ML 12L - Pandas UDF Lab", steps |-> PandasUDFLabScript] }

Programs == Scripts \cup { [name |-> "wait_for_model", steps |-> c] : c \in DirectCalls }

(***************************************************************************)
(* wait_for_model, lines 178-193 of the MLflow Lab.                        *)
(***************************************************************************)
\* (variant: the loop runs once more than range(timeout) does)
HasNextInclusive(k, n) == k <= n

\* (variant: the body of the loop runs once before the range is looked at)
HasNextAtLeastOnce(k, n) == k = 0 \/ k < n

\* (variant: the range is one short, range(timeout - 1))
HasNextButLast(k, n) == k + 1 < n

\* for i in range(timeout): there is a next i
HasNext(k, n) == k < n

\* (variant: the status is compared with the target stage and the stage
\* with the target status)
MatchesSwapped(lastStatus, lastStage, targetStatus, targetStage) ==
    lastStatus = Str(targetStage) /\ lastStage = Str(targetStatus)

\* (variant: both locals are compared with the target status)
MatchesStatusTwice(lastStatus, lastStage, targetStatus, targetStage) ==
    lastStatus = Str(targetStatus) /\ lastStage = Str(targetStatus)

\* (variant: "or" where the helper says "and")
MatchesEither(lastStatus, lastStage, targetStatus, targetStage) ==
    lastStatus = Str(targetStatus) \/ lastStage = Str(targetStage)

\* if last_status == str(status) and last_stage == str(stage)
Matches(lastStatus, lastStage, targetStatus, targetStage) ==
    lastStatus = Str(targetStatus) /\ lastStage = Str(targetStage)

\* (variant: the sleep grows with the number of fetches that did not match)
SleepBackoff(k) == k + 1

\* time.sleep(1) in iteration k of the loop
SleepSeconds(k) == 1

\* (variant: the last stage and status are printed from the wrong locals)
MessageSwapped(name, ver, targetStatus, limit, lastStatus, lastStage) ==
    [model_name |-> name, version |-> ver, status |-> Str(targetStatus),
     timeout |-> limit, last_status |-> lastStage, last_stage |-> lastStatus]

\* the fields of the f-string of line 193, in the order it prints them
Message(name, ver, targetStatus, limit, lastStatus, lastStage) ==
    [model_name |-> name, version |-> ver, status |-> Str(targetStatus),
     timeout |-> limit, last_status |-> lastStatus, last_stage |-> lastStage]

\* raise Exception(...)
TimeoutError(msg) == <<"Exception", msg>>
\* what a failing request of the MLflow client raises
RemoteError == <<"RestException">>
NoException == <<>>

\* (variant: the failure of a fetch is swallowed and the loop goes on)
AfterFetchErrorRetry == "sleep"

\* where control goes when get_model_version raises inside the loop: no
\* try statement encloses line 185, the exception leaves the function
AfterFetchError == "propagated"

\* (variant: every cell discards the failure of its request)
CaughtEverywhere(step) == TRUE

\* except: None around a step of a notebook
Caught(step) == step.caught

(***************************************************************************)
(* max([model_version_info.version for ...]) over the answer of            *)
(* search_model_versions.  The client of the registry service reports a   *)
(* version as a str of decimal digits.                                     *)
(***************************************************************************)
RECURSIVE Digits(_)
Digits(n) == IF n < 10 THEN <<n>> ELSE Append(Digits(n \div 10), n % 10)

\* lexicographic order of two digit strings
RECURSIVE LexLess(_, _)
LexLess(a, b) ==
    IF a = <<>> THEN b # <<>>
    ELSE IF b = <<>> THEN FALSE
    ELSE IF Head(a) # Head(b) THEN Head(a) < Head(b)
    ELSE LexLess(Tail(a), Tail(b))

\* version n as the client reports it
VersionValue(n) == PyStr(ToString(n))

\* largest number of versions a registered model has when the latest
\* version is looked up on its own
MaxExisting == 11

\* the number a reported version stands for
VersionNumber(v) ==
    IF v[1] = "int" THEN v[2]
    ELSE CHOOSE n \in 1..(MaxVersions + MaxExisting) : ToString(n) = v[2]

\* Python's < on two versions of the same type
PyLess(a, b) ==
    IF a[1] = "int" THEN a[2] < b[2]
    ELSE LexLess(Digits(VersionNumber(a)), Digits(VersionNumber(b)))

\* Python's max of a non-empty list: the first element no other exceeds
PyMax(list) ==
    LET best == { k \in 1..Len(list) : \A j \in 1..Len(list) : ~PyLess(list[k], list[j]) }
    IN list[CHOOSE k \in best : \A j \in best : k <= j]

(***************************************************************************)
(* The registered model of a notebook, as the registry service holds it:   *)
(* the sequence of its versions, version n at place n.  The notebooks see  *)
(* it only through the requests below; what each request does is what the  *)
(* cells around it say it does.                                            *)
(***************************************************************************)
\* who logged the model of a version
ThisExecution == "this execution"
EarlierExecution == "an earlier execution"

\* the registered model does not exist
NoModel == <<>>

\* a version as register_model creates it
NewVersion(by) ==
    [current_stage |-> "None", status |-> "PENDING_REGISTRATION",
     logged_by |-> by, deleted |-> FALSE]

\* mlflow.register_model(name=...) and log_model(registered_model_name=...):
\* the model is created when the name is new, and gets its next version
RegisterModel(reg, by) == Append(reg, NewVersion(by))

\* version n of the model is there
Exists(reg, n) == n \in 1..Len(reg) /\ ~reg[n].deleted

\* the versions search_model_versions(f"name='{model_name}'") finds
LiveVersions(reg) == { n \in 1..Len(reg) : ~reg[n].deleted }

\* (variant: the registry keeps one version in use: a transition archives
\* every other version of the model)
TransitionArchivingOthers(reg, n, to, archive) ==
    [k \in 1..Len(reg) |->
        IF k = n THEN [reg[k] EXCEPT !.current_stage = to]
        ELSE IF ~reg[k].deleted THEN [reg[k] EXCEPT !.current_stage = "Archived"]
        ELSE reg[k]]

\* transition_model_version_stage(name, version=n, stage=to): version n is
\* in stage to; with archive_existing_versions=True the versions that were
\* in that stage are archived
TransitionModelVersionStage(reg, n, to, archive) ==
    [k \in 1..Len(reg) |->
        IF k = n THEN [reg[k] EXCEPT !.current_stage = to]
        ELSE IF archive /\ ~reg[k].deleted /\ reg[k].current_stage = to
             THEN [reg[k] EXCEPT !.current_stage = "Archived"]
             ELSE reg[k]]

\* delete_model_version(name, version=n); the number is not given again
DeleteModelVersion(reg, n) == [reg EXCEPT ![n].deleted = TRUE]

\* delete_registered_model(name): the model and all its versions are gone,
\* the name is new again
DeleteRegisteredModel(reg) == NoModel

\* what an earlier execution that did not reach its last cell left behind:
\* nothing, or some versions of the model, registered and in some stage
MaxLeftover == MaxVersions - 2
Leftovers ==
    {NoModel} \cup
    { [k \in 1..n |-> [current_stage |-> s, status |-> "READY",
                       logged_by |-> EarlierExecution, deleted |-> FALSE]] :
        n \in 1..MaxLeftover, s \in Stages }

\* the notebooks that work on a registered model
RegistryNotebooks ==
    {"ML 05L - MLflow Lab", "ML 05 - MLflow Model Registry", "ML 10 - Feature Store"}

(***************************************************************************)
(* The Delta tables of the MLflow Lab: for each path the commits of its    *)
(* log, commit n + 1 of the sequence being version n of the table.  A      *)
(* commit is known by the name of the data frame it wrote.                 *)
(***************************************************************************)
\* largest number of commits an earlier execution left under a path
MaxCommits == 1
Paths == {"train_delta_path", "test_delta_path"}
NoTables == [path \in Paths |-> <<>>]
LeftoverTables ==
    { [path \in Paths |-> [k \in 1..n |-> EarlierExecution]] : n \in 0..MaxCommits }

\* (variant: the path is left as it is)
RemoveNothing(d, path) == d

\* dbutils.fs.rm(path, True): the directory and its log are gone
RemovePath(d, path) == [d EXCEPT ![path] = <<>>]

\* write.mode("overwrite").format("delta").save(path): one more commit
SaveOverwrite(d, path, data) == [d EXCEPT ![path] = Append(@, data)]

\* the table has version v
HasVersion(d, path, v) == v + 1 \in 1..Len(d[path])

\* read.format("delta").option("versionAsOf", v).load(path): the data frame
\* of version v of the table
VersionAsOf(d, path, v) == [path |-> path, version |-> v, data |-> d[path][v + 1]]

\* a run of the tracking service: its name, its parameters, and the data
\* frame its model was fitted on
NoData == [path |-> "", version |-> -1, data |-> ""]
NewRun(name) == [run_name |-> name, data_version |-> Omitted, fitted_on |-> NoData]

\* name = value in the variables of a notebook
Bind(g, name, value) ==
    [x \in (DOMAIN g) \cup {name} |-> IF x = name THEN value ELSE g[x]]

(***************************************************************************)
(* State.                                                                  *)
(***************************************************************************)
VARIABLES
    \* the notebook that runs (or "wait_for_model" for a direct call)
    script, program,
    \* index of its next step, and how it stands: running, done, failed
    pc, outcome,
    \* the notebook variable new_model_version (Omitted before line 357)
    new_model_version,
    \* the steps issued so far: line and whether the step succeeded
    trace,
    \* the time.sleep calls of the notebook cells: line and seconds
    delays,
    \* the frame of wait_for_model: where it stands, its parameters, locals
    wf_pc, model_name, version, stage, status, timeout,
    i, last_stage, last_status,
    \* the exception in flight or uncaught (NoException when there is none)
    exception,
    \* what the registry saw of the current call: answered fetches, issued
    \* fetches, sleeps, the sleeps (seconds) since the last fetch and before
    \* it, the last answer, the index of the first answer that was the target
    fetches, attempts, sleeps, sinceFetch, gap, lastObs, matchAt,
    \* the services: the registered model of the notebook, the Delta tables
    \* under its paths, the runs it tracked
    registry, delta, mlruns,
    \* the other variables of the notebook, by name, and the estimator,
    \* evaluator, pipeline and cross-validator objects they refer to
    globals, heap,
    \* what the registry and the table paths held at the start, and the
    \* requests on the registered model issued so far, each with what the
    \* registry held then
    leftover, issued,
    \* the argument and the result of a function evaluated on its own
    df, out

frame == <<wf_pc, model_name, version, stage, status, timeout, i, last_stage, last_status>>
seen == <<fetches, attempts, sleeps, sinceFetch, gap, lastObs, matchAt>>
notebook == <<script, program, pc, outcome, new_model_version, trace, delays>>
services == <<registry, delta, mlruns>>
history == <<leftover, issued>>
pure == <<df, out>>
cells == <<globals, heap>>
vars == <<notebook, frame, exception, seen, services, cells, history, pure>>

\* the frame of a function that is not running
NoFrame ==
    /\ wf_pc = "idle"
    /\ model_name = "" /\ version = Omitted /\ stage = Omitted
    /\ status = Omitted /\ timeout = 0
    /\ i = 0 /\ last_stage = "" /\ last_status = ""

NothingSeen ==
    /\ fetches = 0 /\ attempts = 0 /\ sleeps = 0
    /\ sinceFetch = <<>> /\ gap = <<>>
    /\ lastObs = NoObservation /\ matchAt = 0

\* the frame is left: its locals are gone, and so is what was seen of it
LeaveFrame ==
    /\ wf_pc' = "idle"
    /\ model_name' = "" /\ version' = Omitted /\ stage' = Omitted
    /\ status' = Omitted /\ timeout' = 0
    /\ i' = 0 /\ last_stage' = "" /\ last_status' = ""
    /\ fetches' = 0 /\ attempts' = 0 /\ sleeps' = 0
    /\ sinceFetch' = <<>> /\ gap' = <<>>
    /\ lastObs' = NoObservation /\ matchAt' = 0

Init ==
    /\ \E p \in Programs : script = p.name /\ program = p.steps
    /\ pc = 1
    /\ outcome = "running"
    /\ new_model_version = Omitted
    /\ trace = <<>>
    /\ delays = <<>>
    /\ NoFrame
    /\ exception = NoException
    /\ NothingSeen
    /\ registry \in (IF script \in RegistryNotebooks THEN Leftovers ELSE {NoModel})
    /\ delta \in (IF script = "ML 05L - MLflow Lab" THEN LeftoverTables ELSE {NoTables})
    /\ mlruns = <<>>
    /\ globals = <<>>
    /\ heap = <<>>
    /\ leftover = [model |-> registry, tables |-> delta]
    /\ issued = <<>>
    /\ df = <<>> /\ out = <<>>

Step == program[pc]
AtStep(kind) ==
    /\ outcome = "running"
    /\ wf_pc = "idle"
    /\ pc <= Len(program)
    /\ Step.kind = kind

\* the registered model a notebook works on
ModelName == IF script = "wait_for_model" THEN "m" ELSE "model_name"

\* the value a step passes as version
Resolve(v) ==
    IF v = Ref("new_model_version") THEN new_model_version
    ELSE IF v[1] = "ref" THEN globals[v[2]]
    ELSE v

(***************************************************************************)
(* The observer's words.                                                   *)
(***************************************************************************)
\* the text the registry shows for a stage or a status
TextOf(v) == CASE v = PyNone -> "None" [] OTHER -> v[2]

\* whether the answer of a fetch is the pair the call waits for
IsTarget(obs) ==
    /\ TextOf(obs.current_stage) = TextOf(stage)
    /\ TextOf(obs.status) = TextOf(status)

\* the call is over: it returned, raised, or let an exception through
Over == wf_pc \in {"returned", "raised", "propagated"}

(***************************************************************************)
(* The steps of a notebook.                                                *)
(***************************************************************************)
IsSearch(step) == step.op = "search_model_versions"

\* the requests that give the registered model a new version
Registers(step) ==
    step.op \in {"mlflow.register_model",
                 "mlflow.spark.log_model(registered_model_name)",
                 "mlflow.sklearn.log_model(registered_model_name)",
                 "fs.log_model(registered_model_name)"}

\* (variant: the keyword archive_existing_versions is not passed on)
ArchivesNothing(step) == FALSE

ArchivesExisting(step) == step.op = "transition_model_version_stage(archive_existing_versions)"
IsTransition(step) == step.op = "transition_model_version_stage" \/ ArchivesExisting(step)
IsDelete(step) == step.op \in {"delete_model_version", "delete_registered_model"}

\* the number of the version a request names
Target(step) == VersionNumber(Resolve(step.version))

\* the service can answer the request: the version, the model or the table
\* version it names is there
Answerable(step) ==
    /\ step.version # Omitted => Exists(registry, Target(step))
    /\ step.op \in {"delete_registered_model", "update_registered_model"} =>
          registry # NoModel
    /\ Registers(step) => Len(registry) < MaxVersions
    /\ (step.op = "read" /\ step.arg \in Paths) =>
          HasVersion(delta, step.arg, globals["data_version"][2])

\* the registered model after the request
RegistryAfter(step, reg) ==
    CASE Registers(step) -> RegisterModel(reg, ThisExecution)
      [] IsTransition(step) ->
            TransitionModelVersionStage(reg, Target(step), Str(step.stage),
                                        ArchivesExisting(step))
      [] step.op = "delete_model_version" -> DeleteModelVersion(reg, Target(step))
      [] step.op = "delete_registered_model" -> DeleteRegisteredModel(reg)
      [] OTHER -> reg

\* the tables after the request
DeltaAfter(step, d) ==
    CASE step.op = "dbutils.fs.rm" /\ step.arg \in Paths -> RemovePath(d, step.arg)
      [] step.op = "write" /\ step.arg \in Paths -> SaveOverwrite(d, step.arg, step.name)
      [] OTHER -> d

\* the runs after the request: the param and the fit belong to the run
\* whose with block encloses them
RunsAfter(step, runs) ==
    CASE step.op = "mlflow.start_run" -> Append(runs, NewRun(step.name))
      [] step.op = "mlflow.log_param" /\ step.arg = "data_version" ->
            [runs EXCEPT ![Len(runs)].data_version = globals[step.name]]
      [] step.op = "fit" /\ step.name # "" ->
            [runs EXCEPT ![Len(runs)].fitted_on = globals[step.name]]
      [] OTHER -> runs

\* the variables of the notebook after the request
GlobalsAfter(step, g) ==
    CASE step.op = "read" /\ step.arg \in Paths ->
            Bind(g, step.name, VersionAsOf(delta, step.arg, g["data_version"][2]))
      [] step.op = "mlflow.register_model" ->
            Bind(g, "model_details.version", VersionValue(Len(registry) + 1))
      [] OTHER -> g

\* the requests on the registered model that the history keeps, each with
\* whether it was answered and what the registry held when it was issued
IsUpdate(step) == step.op \in {"update_registered_model", "update_model_version"}
Kept(step) ==
    \/ Registers(step) \/ IsTransition(step) \/ IsDelete(step) \/ IsUpdate(step)
    \/ step.op = "fs.score_batch"
RequestOf(step, ok) ==
    [line |-> step.line, op |-> step.op, ok |-> ok,
     version |-> IF step.version = Omitted THEN 0 ELSE Target(step),
     stage |-> IF step.stage = Omitted THEN "" ELSE Str(step.stage)]
\* (what the registry held is kept with the requests that register, move,
\* delete or load versions, not with the updates of descriptions)
Issue(step, ok) ==
    IF IsUpdate(step) THEN RequestOf(step, ok)
    ELSE RequestOf(step, ok) @@ [before |-> registry]
IssuedAfter(step, ok) == IF Kept(step) THEN Append(issued, Issue(step, ok)) ELSE issued

\* the history also keeps each call of wait_for_model that has ended, with
\* the version and the stage it was called with and whether it returned
IssueWait(ok) ==
    [line |-> Step.line, op |-> "wait_for_model", ok |-> ok,
     version |-> VersionNumber(version), stage |-> Str(stage)]

\* a remote request is answered
RequestSucceeds ==
    /\ AtStep("request")
    /\ ~IsSearch(Step)
    /\ Answerable(Step)
    /\ registry' = RegistryAfter(Step, registry)
    /\ delta' = DeltaAfter(Step, delta)
    /\ mlruns' = RunsAfter(Step, mlruns)
    /\ globals' = GlobalsAfter(Step, globals)
    /\ issued' = IssuedAfter(Step, TRUE)
    /\ trace' = Append(trace, [line |-> Step.line, ok |-> TRUE])
    /\ pc' = pc + 1
    /\ UNCHANGED <<script, program, outcome, new_model_version, delays>>
    /\ UNCHANGED <<frame, exception, seen, heap, leftover, pure>>

\* the versions of the model in the order of their numbers
Versions(reg) ==
    LET live == LiveVersions(reg)
    IN CHOOSE s \in [1..Cardinality(live) -> live] :
          \A a, b \in DOMAIN s : a < b => s[a] < s[b]

\* search_model_versions is answered with the versions of the model, and
\* the next line keeps the greatest as new_model_version
SearchModelVersions ==
    /\ AtStep("request")
    /\ IsSearch(Step)
    /\ LiveVersions(registry) # {}
    /\ new_model_version' =
          PyMax([k \in DOMAIN Versions(registry) |-> VersionValue(Versions(registry)[k])])
    /\ trace' = Append(trace, [line |-> Step.line, ok |-> TRUE])
    /\ pc' = pc + 1
    /\ UNCHANGED <<script, program, outcome, delays>>
    /\ UNCHANGED <<frame, exception, seen, services, cells, history, pure>>

\* a remote request raises: the notebook stops there, unless the step
\* stands in a try whose except clause discards the exception
RequestFails ==
    /\ AtStep("request")
    /\ trace' = Append(trace, [line |-> Step.line, ok |-> FALSE])
    /\ issued' = IssuedAfter(Step, FALSE)
    /\ IF Caught(Step)
       THEN pc' = pc + 1 /\ UNCHANGED <<outcome, exception>>
       ELSE outcome' = "failed" /\ exception' = RemoteError /\ pc' = pc
    /\ UNCHANGED <<script, program, new_model_version, delays>>
    /\ UNCHANGED <<frame, seen, services, cells, leftover, pure>>

\* the registry finishes the registration of a version
RegistrationCompletes ==
    /\ outcome = "running"
    /\ \E n \in 1..Len(registry) :
          /\ registry[n].status = "PENDING_REGISTRATION"
          /\ registry' = [registry EXCEPT ![n].status = "READY"]
    /\ UNCHANGED <<notebook, frame, exception, seen, delta, mlruns, cells, history, pure>>

\* (variant: a pipeline or cross-validator keeps copies of the objects it
\* is built from, not the objects)
NewObjectOfCopies(class, parts) ==
    [class |-> class, params |-> <<>>, parts |-> <<>>, sets |-> <<>>]

\* a new object of a class: the parameters set on it, the objects it is
\* built from (stages=, estimator=, evaluator=), and the setter calls on it
NewObject(class, parts) ==
    [class |-> class, params |-> <<>>, parts |-> parts, sets |-> <<>>]

\* the reference to the object a statement constructs
ObjectAt(line) == <<"object", line>>

\* the object is a stage of a Pipeline or the estimator or evaluator of a
\* CrossValidator
Placed(h, o) ==
    \E p \in DOMAIN h :
        /\ h[p].class \in {"Pipeline", "CrossValidator"}
        /\ \E k \in DOMAIN h[p].parts : h[p].parts[k] = o

\* the variables after a statement: an assignment binds the name to the
\* value, a construction binds it to the new object
GlobalsAfterStatement(step, g) ==
    CASE step.op = "assign" -> Bind(g, step.name, step.arg)
      [] step.op = "set" -> g
      [] OTHER -> Bind(g, step.name, ObjectAt(step.line))

\* the object after a setter call
AfterSet(h, o, line, param, value) ==
    [h[o] EXCEPT !.params = Bind(@, param, value),
                 !.sets = Append(@, [line |-> line, param |-> param,
                                     placed |-> Placed(h, o)])]

\* the objects after a statement: a setter changes the parameter of the
\* object the name refers to, a construction adds the object, which refers
\* to the objects its arguments name
HeapAfterStatement(step, h) ==
    CASE step.op = "assign" -> h
      [] step.op = "set" ->
            [h EXCEPT ![globals[step.name]] =
                AfterSet(h, globals[step.name], step.line, step.arg[1], step.arg[2])]
      [] OTHER ->
            Bind(h, ObjectAt(step.line),
                 NewObject(step.op, [k \in DOMAIN step.arg |-> globals[step.arg[k]]]))

\* a statement of a cell that calls no service
Statement ==
    /\ AtStep("statement")
    /\ globals' = GlobalsAfterStatement(Step, globals)
    /\ heap' = HeapAfterStatement(Step, heap)
    /\ pc' = pc + 1
    /\ UNCHANGED <<script, program, outcome, new_model_version, trace, delays>>
    /\ UNCHANGED <<frame, exception, seen, services, history, pure>>

\* time.sleep(seconds) in a cell of the notebook
NotebookSleep ==
    /\ AtStep("sleep")
    /\ delays' = Append(delays, [line |-> Step.line, seconds |-> Step.seconds])
    /\ pc' = pc + 1
    /\ UNCHANGED <<script, program, outcome, new_model_version, trace>>
    /\ UNCHANGED <<frame, exception, seen, services, cells, history, pure>>

\* the last cell has run
Finish ==
    /\ outcome = "running"
    /\ wf_pc = "idle"
    /\ pc = Len(program) + 1
    /\ outcome' = "done"
    /\ UNCHANGED <<script, program, pc, new_model_version, trace, delays>>
    /\ UNCHANGED <<frame, exception, seen, services, cells, history, pure>>

(***************************************************************************)
(* wait_for_model.                                                         *)
(***************************************************************************)
\* lines 178-182: the call binds the parameters and sets the locals
Call ==
    /\ AtStep("wait")
    /\ wf_pc' = "loop"
    /\ model_name' = ModelName
    /\ version' = Resolve(Step.version)
    /\ stage' = Default(Step.stage, DefaultStage)
    /\ status' = Default(Step.status, DefaultStatus)
    /\ timeout' = Default(Step.timeout, PyInt(DefaultTimeout))[2]
    /\ i' = 0
    /\ last_stage' = "unknown"
    /\ last_status' = "unknown"
    /\ fetches' = 0 /\ attempts' = 0 /\ sleeps' = 0
    /\ sinceFetch' = <<>> /\ gap' = <<>>
    /\ lastObs' = NoObservation /\ matchAt' = 0
    /\ UNCHANGED <<notebook, exception, services, cells, history, pure>>

\* what get_model_version can answer: what the registry holds for the
\* version of the notebook's model; to a call on its own, anything
Answers ==
    IF script \in RegistryNotebooks
    THEN { [current_stage |-> PyStr(registry[n].current_stage),
            status |-> PyStr(registry[n].status)] :
              n \in { k \in {VersionNumber(version)} : Exists(registry, k) } }
    ELSE Observations

\* lines 184-189: get_model_version answers; the locals take the answer as
\* text and the function returns when both are the target
Fetch ==
    /\ wf_pc = "loop"
    /\ HasNext(i, timeout)
    /\ \E obs \in Answers :
          /\ last_stage' = Str(obs.current_stage)
          /\ last_status' = Str(obs.status)
          /\ lastObs' = obs
          /\ matchAt' = IF matchAt = 0 /\ IsTarget(obs) THEN fetches + 1 ELSE matchAt
    /\ wf_pc' = IF Matches(last_status', last_stage', status, stage)
                THEN "returned" ELSE "sleep"
    /\ fetches' = fetches + 1
    /\ attempts' = attempts + 1
    /\ gap' = sinceFetch
    /\ sinceFetch' = <<>>
    /\ UNCHANGED <<model_name, version, stage, status, timeout, i>>
    /\ UNCHANGED <<notebook, exception, sleeps, services, cells, history, pure>>

\* line 185: get_model_version raises
FetchFails ==
    /\ wf_pc = "loop"
    /\ HasNext(i, timeout)
    /\ wf_pc' = AfterFetchError
    /\ exception' = IF wf_pc' = "propagated" THEN RemoteError ELSE exception
    /\ attempts' = attempts + 1
    /\ gap' = sinceFetch
    /\ sinceFetch' = <<>>
    /\ UNCHANGED <<model_name, version, stage, status, timeout, i, last_stage, last_status>>
    /\ UNCHANGED <<notebook, fetches, sleeps, lastObs, matchAt, services, cells, history, pure>>

\* line 191, and the step of the for statement to the next i
Sleep ==
    /\ wf_pc = "sleep"
    /\ sleeps' = sleeps + 1
    /\ sinceFetch' = Append(sinceFetch, SleepSeconds(i))
    /\ i' = i + 1
    /\ wf_pc' = "loop"
    /\ UNCHANGED <<model_name, version, stage, status, timeout, last_stage, last_status>>
    /\ UNCHANGED <<notebook, exception, fetches, attempts, gap, lastObs, matchAt>>
    /\ UNCHANGED <<services, cells, history, pure>>

\* line 193: range(timeout) is used up
Timeout ==
    /\ wf_pc = "loop"
    /\ ~HasNext(i, timeout)
    /\ exception' = TimeoutError(Message(model_name, version, status, timeout,
                                         last_status, last_stage))
    /\ wf_pc' = "raised"
    /\ UNCHANGED <<model_name, version, stage, status, timeout, i, last_stage, last_status>>
    /\ UNCHANGED <<notebook, seen, services, cells, history, pure>>

\* the call returns to its cell, whose notebook goes on
WaitReturns ==
    /\ wf_pc = "returned"
    /\ outcome = "running"
    /\ trace' = Append(trace, [line |-> Step.line, ok |-> TRUE])
    /\ issued' = Append(issued, IssueWait(TRUE))
    /\ pc' = pc + 1
    /\ LeaveFrame
    /\ UNCHANGED <<script, program, outcome, new_model_version, delays, exception>>
    /\ UNCHANGED <<services, cells, leftover, pure>>

\* the call raised, or let the exception of the fetch through: the
\* notebook stops at the cell of the call
WaitRaises ==
    /\ wf_pc \in {"raised", "propagated"}
    /\ outcome = "running"
    /\ trace' = Append(trace, [line |-> Step.line, ok |-> FALSE])
    /\ IF Caught(Step)
       THEN pc' = pc + 1 /\ LeaveFrame /\ exception' = NoException
            /\ UNCHANGED outcome
       ELSE outcome' = "failed" /\ UNCHANGED <<pc, frame, exception, seen>>
    /\ issued' = Append(issued, IssueWait(FALSE))
    /\ UNCHANGED <<script, program, new_model_version, delays>>
    /\ UNCHANGED <<services, cells, leftover, pure>>

Next ==
    \/ RequestSucceeds
    \/ SearchModelVersions
    \/ RequestFails
    \/ RegistrationCompletes
    \/ Statement
    \/ NotebookSleep
    \/ Finish
    \/ Call
    \/ Fetch
    \/ FetchFails
    \/ Sleep
    \/ Timeout
    \/ WaitReturns
    \/ WaitRaises

Spec == Init /\ [][Next]_vars

(***************************************************************************)
(* A direct call alone, with every fetch and every sleep coming back: the  *)
(* call is synchronous, its thread takes the next step whenever there is   *)
(* one.                                                                    *)
(***************************************************************************)
CallInit == Init /\ script = "wait_for_model"
CallNext ==
    \/ Call
    \/ Fetch
    \/ FetchFails
    \/ Sleep
    \/ Timeout
    \/ WaitReturns
    \/ WaitRaises
    \/ Finish
CallSpec == CallInit /\ [][CallNext]_vars /\ WF_vars(CallNext)

(***************************************************************************)
(* Properties of wait_for_model.                                           *)
(***************************************************************************)

\* C1: with timeout >= 1, when the first fetch reports the target stage and
\* status, the call has returned after exactly one fetch and no sleep,
\* whatever the timeout is.
C1_FirstFetchMatchReturns ==
    (timeout >= 1 /\ matchAt = 1) =>
        /\ wf_pc = "returned"
        /\ fetches = 1 /\ attempts = 1 /\ sleeps = 0
        /\ exception = NoException

\* a call with the default timeout of 300 that returned on its first fetch
C1_Witness ==
    /\ matchAt = 1 /\ wf_pc = "returned"
    /\ timeout = DefaultTimeout /\ fetches = 1 /\ sleeps = 0

\* C2: with timeout >= 1, a call whose fetches never report the target pair
\* does not return, never fetches more than timeout times, and raises only
\* after exactly timeout fetches; the message of the error holds the stage
\* and status of the last fetch and the timeout.
C2_NoMatchRaisesAfterTimeoutFetches ==
    /\ (timeout >= 1 /\ wf_pc # "idle" /\ matchAt = 0 /\ attempts = fetches) =>
          /\ wf_pc # "returned"
          /\ fetches <= timeout
          /\ (wf_pc = "raised" <=> exception # NoException)
    /\ (timeout >= 1 /\ wf_pc = "raised") =>
          /\ fetches = timeout /\ attempts = timeout /\ matchAt = 0
          /\ exception[1] = "Exception"
          /\ exception[2].last_stage = TextOf(lastObs.current_stage)
          /\ exception[2].last_status = TextOf(lastObs.status)
          /\ exception[2].timeout = timeout

\* the call of the example: timeout 5, never READY, raised after 5 fetches
C2_Witness ==
    /\ wf_pc = "raised" /\ timeout = 5 /\ fetches = 5
    /\ status = PyStr("READY")
    /\ lastObs = [current_stage |-> PyStr("None"), status |-> PyStr("PENDING_REGISTRATION")]

\* C3: when the first fetch that reports the target pair is the k-th, with
\* 1 <= k < timeout, the call has returned without raising after exactly k
\* fetches (and k - 1 sleeps), and no fetch follows the matching one.
C3_MatchAtKReturnsAfterKFetches ==
    (1 <= matchAt /\ matchAt < timeout) =>
        /\ wf_pc = "returned"
        /\ fetches = matchAt /\ attempts = matchAt /\ sleeps = matchAt - 1
        /\ exception = NoException

\* the call of the example: timeout 5, (Staging, READY) first seen at the
\* third fetch
C3_Witness ==
    /\ timeout = 5 /\ matchAt = 3 /\ wf_pc = "returned" /\ fetches = 3
    /\ stage = PyStr("Staging") /\ status = PyStr("READY")

\* C4: the call returns only when its most recent fetch reported both the
\* target stage and the target status; an answer with only one of the two
\* does not make it return.
C4_ReturnsOnlyOnBoth ==
    /\ wf_pc = "returned" => (fetches >= 1 /\ IsTarget(lastObs))
    /\ (fetches >= 1 /\ attempts = fetches /\ ~IsTarget(lastObs)) => wf_pc # "returned"

\* the last fetch reported the target stage with another status, and the
\* call goes on polling
C4_Witness ==
    /\ wf_pc = "sleep"
    /\ TextOf(lastObs.current_stage) = TextOf(stage)
    /\ TextOf(lastObs.status) # TextOf(status)

\* the texts the message of the timeout error prints
MessageTexts(m) == {m.model_name, m.status, m.last_status, m.last_stage}

\* C5: the error raised on timeout carries the model name and version, the
\* requested stage and the requested status, and the last stage and status
\* seen.  (Stated for the calls that fetched at least once.)
C5_MessageCarriesTargetState ==
    (wf_pc = "raised" /\ timeout >= 1) =>
        /\ exception[2].model_name = model_name
        /\ exception[2].version = version
        /\ TextOf(status) \in MessageTexts(exception[2])
        /\ TextOf(stage) \in MessageTexts(exception[2])
        /\ exception[2].last_stage = TextOf(lastObs.current_stage)
        /\ exception[2].last_status = TextOf(lastObs.status)

\* C6: a call of wait_for_model ends: it never fetches more than timeout
\* times (300 times when the timeout is left out), and every call that has
\* begun comes to return or to raise.
C6_Terminates ==
    /\ [](wf_pc # "idle" => fetches <= (IF timeout > 0 THEN timeout ELSE 0))
    /\ []((wf_pc # "idle" /\ Step.timeout = Omitted) =>
             (timeout = DefaultTimeout /\ fetches <= DefaultTimeout))
    /\ (wf_pc # "idle") ~> Over

\* a call without timeout argument that raised after its 300th fetch
C6_Witness ==
    /\ wf_pc = "raised" /\ Step.timeout = Omitted
    /\ fetches = DefaultTimeout /\ sleeps = DefaultTimeout

\* C7: between two consecutive fetches of a call there is exactly one sleep,
\* of one second, however many fetches did not match before.
C7_FixedInterval ==
    /\ attempts >= 2 => gap = <<1>>
    /\ (wf_pc = "loop" /\ attempts >= 1) => sinceFetch = <<1>>
    /\ sinceFetch \in {<<>>, <<1>>}

\* the fourth fetch of a call came one one-second sleep after the third
C7_Witness == fetches = 4 /\ sleeps = 3 /\ gap = <<1>>

\* C8: when get_model_version fails, its error leaves wait_for_model as it
\* is: the fetch is not tried again, nothing is fetched or slept after it,
\* and the error is not turned into the timeout error.
C8_FetchErrorPropagates ==
    (attempts > fetches) =>
        /\ wf_pc = "propagated"
        /\ exception = RemoteError
        /\ attempts = fetches + 1
        /\ sleeps = fetches
        /\ sinceFetch = <<>>

\* the third fetch of a call failed and its error left the function
C8_Witness == wf_pc = "propagated" /\ attempts = 3 /\ fetches = 2 /\ exception = RemoteError

(***************************************************************************)
(* Properties of the notebooks.                                            *)
(***************************************************************************)
\* the step at place k of the trace failed
FailedAt(k) == ~trace[k].ok

\* the notebook stopped at the step at place k of the trace
StoppedAt(k) == k = Len(trace) /\ outcome = "failed"

\* the only raise statement of the notebooks is the one of wait_for_model
OnlyWaitRaisesItself ==
    /\ outcome = "failed" => exception # NoException
    /\ (exception # NoException /\ exception[1] = "Exception") =>
          (Step.kind = "wait" /\ ~HasNext(i, timeout))

\* C9 as the specification states it: the timeout of wait_for_model is the
\* only explicit error path and no notebook discards the failure of a remote
\* request; a failing request stops the notebook at that request and no
\* later request is issued.
C9_AnyFailureStopsTheScript ==
    /\ OnlyWaitRaisesItself
    /\ \A k \in 1..Len(trace) : FailedAt(k) => StoppedAt(k)

\* C9 amended: the same, except for the delete_registered_model request of
\* line 218 of the Feature Store notebook, whose failure a try/except
\* discards; the notebook goes on with its next request.
C9_FailureStopsUnlessFeatureStoreDelete ==
    /\ OnlyWaitRaisesItself
    /\ \A k \in 1..Len(trace) :
          FailedAt(k) =>
             \/ StoppedAt(k)
             \/ /\ script = "ML 10 - Feature Store"
                /\ trace[k].line = 218
                /\ (k < Len(trace) \/ outcome = "running")

\* the Feature Store notebook went on after its delete request failed, and
\* stopped at a later request that failed
C9_Witness ==
    /\ script = "ML 10 - Feature Store"
    /\ outcome = "failed"
    /\ \E k \in 1..Len(trace) : k < Len(trace) /\ FailedAt(k) /\ trace[k].line = 218
    /\ FailedAt(Len(trace))

\* C10 as the specification states it: a notebook suspends only in the poll
\* of wait_for_model, never by a delay whose end does not depend on the
\* state of the registry.
C10_OnlyThePollSuspends == delays = <<>>

\* C10 amended: the poll of wait_for_model is the only suspension of the
\* MLflow Lab, and no other notebook polls; the Model Registry notebook
\* suspends twice by time.sleep(10), each time right before a stage
\* transition request (lines 173 and 258), for a time that does not depend
\* on the registry; no other notebook suspends.
C10_PollOrRegistryNotebookDelay ==
    /\ \A k \in 1..Len(delays) :
          /\ script = "ML 05 - MLflow Model Registry"
          /\ delays[k] \in {[line |-> 173, seconds |-> 10], [line |-> 258, seconds |-> 10]}
    /\ \A k \in 1..Len(program) :
          program[k].kind = "sleep" =>
             /\ k < Len(program)
             /\ program[k + 1].op = "transition_model_version_stage"
    /\ wf_pc # "idle" => script \in {"ML 05L - MLflow Lab", "wait_for_model"}
    /\ script = "ML 05L - MLflow Lab" => delays = <<>>

\* the Model Registry notebook ran to its end through both fixed delays
C10_Witness ==
    /\ script = "ML 05 - MLflow Model Registry"
    /\ outcome = "done"
    /\ delays = <<[line |-> 173, seconds |-> 10], [line |-> 258, seconds |-> 10]>>

(***************************************************************************)
(* Properties of the requests on the registered model.                     *)
(***************************************************************************)
\* the place of a stage in the lifecycle created, staged, production,
\* archived, deleted
Rank(s) ==
    CASE s = "None" -> 0 [] s = "Staging" -> 1 [] s = "Production" -> 2
      [] s = "Archived" -> 3 [] s = "deleted" -> 4

\* the versions a request of the history moves, and where it moves them
Moved(r) ==
    CASE r.op = "delete_registered_model" -> LiveVersions(r.before)
      [] r.op = "transition_model_version_stage(archive_existing_versions)" ->
            { n \in LiveVersions(r.before) :
                 n = r.version \/ r.before[n].current_stage = r.stage }
      [] r.op \in {"transition_model_version_stage", "delete_model_version"} ->
            { n \in LiveVersions(r.before) : n = r.version }
      [] OTHER -> {}
From(r, n) == r.before[n].current_stage
To(r, n) ==
    IF r.op \in {"delete_registered_model", "delete_model_version"} THEN "deleted"
    ELSE IF n = r.version THEN r.stage ELSE "Archived"

\* the moves of versions of this execution that the history holds
MovesOf(r) ==
    { <<From(r, n), To(r, n)>> :
        n \in { v \in Moved(r) : r.before[v].logged_by = ThisExecution } }
Moves == UNION { MovesOf(issued[k]) : k \in DOMAIN issued }

CleanStart == leftover.model = NoModel

Returned(line) ==
    \/ wf_pc = "returned" /\ Step.line = line
    \/ /\ wf_pc = "idle" /\ trace # <<>>
       /\ trace[Len(trace)] = [line |-> line, ok |-> TRUE]

\* version n of the model is there and in the stage
InStage(n, s) == Exists(registry, n) /\ registry[n].current_stage = s

\* C12: in the MLflow Lab started with its model name not registered, when
\* the wait_for_model call after the transition to Production (line 388)
\* returns, version 1 of the model is in Staging and version 2 is in
\* Production.
C12_StagingAndProductionAfterWait ==
    (script = "ML 05L - MLflow Lab" /\ CleanStart /\ Returned(388)) =>
        /\ InStage(1, "Staging")
        /\ InStage(2, "Production")
        /\ new_model_version = VersionValue(2)
        /\ LiveVersions(registry) = {1, 2}

\* the call of line 388 has just returned in a Lab started clean
C12_Witness ==
    /\ script = "ML 05L - MLflow Lab" /\ CleanStart
    /\ wf_pc = "returned" /\ Step.line = 388
    /\ InStage(1, "Staging") /\ InStage(2, "Production")

\* the delete request r of the history came when every version it deletes
\* was archived
DeletesArchived(r) ==
    /\ r.op = "delete_model_version" =>
          (Exists(r.before, r.version) /\ r.before[r.version].current_stage = "Archived")
    /\ r.op = "delete_registered_model" =>
          \A n \in LiveVersions(r.before) : r.before[n].current_stage = "Archived"

\* C13: in the Model Registry notebook and in the MLflow Lab, every
\* delete_model_version request names a version that is in stage Archived
\* when the request is issued, and every delete_registered_model request is
\* issued when each remaining version of the model is in stage Archived.
C13_DeletedOnlyWhenArchived ==
    script \in {"ML 05 - MLflow Model Registry", "ML 05L - MLflow Lab"} =>
        \A k \in DOMAIN issued : DeletesArchived(issued[k])

(***************************************************************************)
(* Properties of the tracked runs of the MLflow Lab.                       *)
(***************************************************************************)
\* the run has fitted its model
Fitted(run) == run.fitted_on # NoData

\* the data frame each run of the Lab is to be fitted on: the first write
\* of the train table, and the table after the log_price overwrite
FirstWrite == [path |-> "train_delta_path", version |-> 0, data |-> "train_df"]
AfterOverwrite == [path |-> "train_delta_path", version |-> 1, data |-> "train_new"]

\* C14: in the MLflow Lab, the data_version logged to each of the two
\* tracked runs is the Delta version of the table its model was fitted on:
\* 0, the first write of the train table, for run lr_model and 1, the table
\* after the log_price overwrite, for run lr_log_model, whatever the paths
\* held before the execution.
C14_DataVersionIsVersionFittedOn ==
    script = "ML 05L - MLflow Lab" =>
        \A k \in DOMAIN mlruns :
            Fitted(mlruns[k]) =>
                /\ mlruns[k].data_version = PyInt(mlruns[k].fitted_on.version)
                /\ mlruns[k].run_name = "lr_model" => mlruns[k].fitted_on = FirstWrite
                /\ mlruns[k].run_name = "lr_log_model" => mlruns[k].fitted_on = AfterOverwrite
                /\ mlruns[k].run_name \in {"lr_model", "lr_log_model"}

\* both runs have fitted their models in an execution that found a table
\* of an earlier execution under the train path
C14_Witness ==
    /\ script = "ML 05L - MLflow Lab"
    /\ leftover.tables["train_delta_path"] # <<>>
    /\ Len(mlruns) = 2
    /\ mlruns[1].data_version = PyInt(0) /\ mlruns[1].fitted_on = FirstWrite
    /\ mlruns[2].data_version = PyInt(1) /\ mlruns[2].fitted_on = AfterOverwrite

(***************************************************************************)
(* Properties of the pipeline objects.                                     *)
(***************************************************************************)
\* the setter calls on objects that were part of a Pipeline or a
\* CrossValidator when the call was made: notebook, line, parameter
MaxBinsAfterPipeline == <<"ML 06 - Decision Trees", 118, "maxBins">>
MetricAfterCrossValidator ==
    <<"ML 07 - Random Forests and Hyperparameter Tuning", 165, "metricName">>

\* C15 as the specification states it: once an estimator, evaluator or
\* cross-validator object is part of a Pipeline or a CrossValidator, no
\* later statement of the notebook changes a parameter of it.
C15_PlacedObjectsNotMutated ==
    \A o \in DOMAIN heap : \A k \in DOMAIN heap[o].sets : ~heap[o].sets[k].placed

\* C15 amended: the same, except for two setter calls: the Decision Trees
\* notebook calls dt.setMaxBins(40) (line 118) after dt became a stage of
\* the pipeline and before the pipeline is fitted, and the Random Forests
\* notebook calls evaluator.setMetricName("r2") (line 165) after the
\* evaluator became the evaluator of both cross-validators; every other
\* setter call is on an object that is part of no Pipeline or
\* CrossValidator.
C15_MutatedOnlyByTwoSetters ==
    /\ \A o \in DOMAIN heap : \A k \in DOMAIN heap[o].sets :
          heap[o].sets[k].placed =>
             <<script, heap[o].sets[k].line, heap[o].sets[k].param>>
                \in {MaxBinsAfterPipeline, MetricAfterCrossValidator}
    /\ (script = "ML 06 - Decision Trees" /\ outcome = "done") =>
          /\ heap[ObjectAt(75)].sets = <<[line |-> 118, param |-> "maxBins", placed |-> TRUE]>>
          /\ heap[ObjectAt(204)].sets = <<[line |-> 207, param |-> "metricName", placed |-> FALSE]>>
    /\ (script = "ML 07 - Random Forests and Hyperparameter Tuning" /\ outcome = "done") =>
          /\ heap[ObjectAt(105)].sets = <<[line |-> 165, param |-> "metricName", placed |-> TRUE]>>
          /\ heap[ObjectAt(107)].sets = <<[line |-> 130, param |-> "parallelism", placed |-> FALSE]>>

\* the Decision Trees notebook has fitted the pipeline after the maxBins of
\* its stage dt was set to 40
C15_Witness ==
    /\ script = "ML 06 - Decision Trees"
    /\ trace # <<>> /\ trace[Len(trace)] = [line |-> 126, ok |-> TRUE]
    /\ Placed(heap, ObjectAt(75))
    /\ heap[ObjectAt(75)].params["maxBins"] = 40
    /\ heap[ObjectAt(75)].sets[1].placed

(***************************************************************************)
(* Data frames by their columns.  A data frame is the sequence of its      *)
(* fields, a field a name with a data type; the functions of the notebooks *)
(* that work on columns are evaluated on their own, on every schema of a   *)
(* small universe of names and types.                                      *)
(***************************************************************************)
Field(name, dataType) == [name |-> name, dataType |-> dataType]

\* the names of the columns, in order
Columns(data) == [k \in DOMAIN data |-> data[k].name]
Names(data) == { data[k].name : k \in DOMAIN data }
\* the elements of a list
Elements(list) == { list[k] : k \in DOMAIN list }

\* the fields of a data frame whose names a list gives, in that order
RECURSIVE Select(_, _)
Select(data, names) ==
    IF names = <<>> THEN <<>>
    ELSE <<CHOOSE f \in { data[k] : k \in DOMAIN data } : f.name = Head(names)>>
         \o Select(data, Tail(names))

\* data.withColumn(name, ...): the column is replaced where it stands, or
\* added at the end
WithColumn(data, name, dataType) ==
    IF name \in Names(data)
    THEN [k \in DOMAIN data |->
             IF data[k].name = name THEN Field(name, dataType) ELSE data[k]]
    ELSE Append(data, Field(name, dataType))

\* data.drop(*names): the columns of these names are left out
RECURSIVE Drop(_, _)
Drop(data, names) ==
    IF data = <<>> THEN <<>>
    ELSE (IF Head(data).name \in names THEN <<>> ELSE <<Head(data)>>)
         \o Drop(Tail(data), names)

\* the schemas over a list of names, each name left out or given one of
\* its types: the sequences of fields in the order of the list
RECURSIVE Schemas(_, _)
Schemas(names, types) ==
    IF names = <<>> THEN {<<>>}
    ELSE LET rest == Schemas(Tail(names), types)
         IN rest \cup
            { <<Field(Head(names), t)>> \o s : t \in types[Head(names)], s \in rest }

\* no notebook runs while a function is evaluated on its own
NoNotebook ==
    /\ script = "" /\ program = <<>> /\ pc = 0 /\ outcome = "done"
    /\ new_model_version = Omitted /\ trace = <<>> /\ delays = <<>>
    /\ NoFrame /\ exception = NoException /\ NothingSeen
    /\ registry = NoModel /\ delta = NoTables /\ mlruns = <<>>
    /\ globals = <<>> /\ heap = <<>>
    /\ leftover = [model |-> NoModel, tables |-> NoTables] /\ issued = <<>>
world == <<notebook, frame, exception, seen, services, cells, history>>

(***************************************************************************)
(* "Solutions/ML 10 - Feature Store.py": the feature table.                *)
(***************************************************************************)
review_columns ==
    <<"review_scores_accuracy", "review_scores_cleanliness", "review_scores_checkin",
      "review_scores_communication", "review_scores_location", "review_scores_value">>

\* the columns a listing table may have, and the types each may be of
ListingColumns == <<"price", "bedrooms", "index">> \o review_columns
ListingTypes ==
    [n \in Elements(ListingColumns) |->
        CASE n = "price" -> {"double", "string", "int"}
          [] n = "bedrooms" -> {"double", "string"}
          [] OTHER -> {"double"}]

\* (variant: every double column is a feature)
numeric_cols_all(fields) ==
    LET IsNumeric(x) == x.dataType = "double" IN Columns(SelectSeq(fields, IsNumeric))

\* line 91: the names of the double fields other than "price"
numeric_cols(fields) ==
    LET IsNumeric(x) == x.dataType = "double" /\ x.name # "price"
    IN Columns(SelectSeq(fields, IsNumeric))

\* lines 93-95: data.select(["index"] + numeric_cols)
select_numeric_features(data, cols) == Select(data, <<"index">> \o cols)

\* the expression of line 304 can be evaluated: it names columns of the
\* data frame it is added to
CanAverage(data) == Elements(review_columns) \subseteq Names(data)

\* lines 301-307, the second definition of select_numeric_features: the
\* same selection, the average of the review columns added and the review
\* columns dropped
select_condensed_features(data, cols) ==
    Drop(WithColumn(Select(data, <<"index">> \o cols), "average_review_score", "double"),
         Elements(review_columns))

\* line 47: the listings are read and numbered: withColumn("index",
\* monotonically_increasing_id())
ReadListings ==
    /\ out.at = "start"
    /\ out' = [out EXCEPT !.at = "read", !.airbnb_df = WithColumn(df, "index", "bigint")]
    /\ UNCHANGED <<df, world>>

\* lines 91-97: numeric_cols and the first feature data frame
SelectFeatures ==
    /\ out.at = "read"
    /\ out' = [out EXCEPT !.at = "selected",
                          !.numeric_cols = numeric_cols(out.airbnb_df),
                          !.numeric_features_df =
                              select_numeric_features(out.airbnb_df, numeric_cols(out.airbnb_df))]
    /\ UNCHANGED <<df, world>>

\* lines 102-108: fs.create_table(df=numeric_features_df)
CreateTable ==
    /\ out.at = "selected"
    /\ out' = [out EXCEPT !.at = "created",
                          !.table = Append(@, Columns(out.numeric_features_df))]
    /\ UNCHANGED <<df, world>>

\* lines 301-309: the second feature data frame
CondenseReviews ==
    /\ out.at = "created"
    /\ CanAverage(Select(out.airbnb_df, <<"index">> \o out.numeric_cols))
    /\ out' = [out EXCEPT !.at = "condensed",
                          !.condensed_review_df =
                              select_condensed_features(out.airbnb_df, out.numeric_cols)]
    /\ UNCHANGED <<df, world>>

\* line 304 names a column the selection does not have: the cell raises
CondenseFails ==
    /\ out.at = "created"
    /\ ~CanAverage(Select(out.airbnb_df, <<"index">> \o out.numeric_cols))
    /\ out' = [out EXCEPT !.at = "failed"]
    /\ UNCHANGED <<df, world>>

\* lines 318-322: fs.write_table(df=condensed_review_df, mode="overwrite")
WriteTable ==
    /\ out.at = "condensed"
    /\ out' = [out EXCEPT !.at = "written",
                          !.table = Append(@, Columns(out.condensed_review_df))]
    /\ UNCHANGED <<df, world>>

FeatureInit ==
    /\ NoNotebook
    /\ df \in Schemas(ListingColumns, ListingTypes)
    /\ out = [at |-> "start", airbnb_df |-> <<>>, numeric_cols |-> <<>>,
              numeric_features_df |-> <<>>, condensed_review_df |-> <<>>,
              table |-> <<>>]
FeatureNext ==
    \/ ReadListings
    \/ SelectFeatures
    \/ CreateTable
    \/ CondenseReviews
    \/ CondenseFails
    \/ WriteTable
FeatureSpec == FeatureInit /\ [][FeatureNext]_vars

\* C16: in the Feature Store notebook the target column price is never a
\* column of the feature table: not of the data frame given to
\* create_table and not of the one given to the overwriting write_table,
\* whatever the columns of the listings are.
C16_PriceNeverInFeatureTable ==
    /\ \A k \in DOMAIN out.table : "price" \notin Elements(out.table[k])
    /\ out.at \in {"selected", "created"} =>
          "price" \notin Names(out.numeric_features_df)
    /\ out.at \in {"condensed", "written"} =>
          "price" \notin Names(out.condensed_review_df)

\* the table was created and then overwritten from listings whose price is
\* a double column
C16_Witness ==
    /\ out.at = "written" /\ Len(out.table) = 2
    /\ Field("price", "double") \in Elements(df)
    /\ "bedrooms" \in Elements(out.table[1])
    /\ "average_review_score" \in Elements(out.table[2])
    /\ "review_scores_value" \notin Elements(out.table[2])

(***************************************************************************)
(* "Solutions/Labs/ML 07L - Hyperparameter Tuning Lab.py": the label.      *)
(***************************************************************************)
\* the values of a double column: null, NaN, or a number, which is kept as
\* its hundredths (150.0 is Double(15000))
Null == <<"null">>
NaN == <<"NaN">>
Double(hundredths) == <<"double", hundredths>>
\* the values of a boolean and of an int column
BooleanValue(b) == <<"boolean", b>>
IntValue(n) == <<"int", n>>

\* (variant: the comparison is strict)
Greater(v, n) ==
    CASE v = Null -> Null
      [] v = NaN -> BooleanValue(TRUE)
      [] OTHER -> BooleanValue(v[2] > n * 100)

\* col("price") >= n on one value: null for null, and NaN counts as
\* greater than every number
GreaterOrEqual(v, n) ==
    CASE v = Null -> Null
      [] v = NaN -> BooleanValue(TRUE)
      [] OTHER -> BooleanValue(v[2] >= n * 100)

\* .cast("int") on a boolean value
CastInt(v) ==
    CASE v = Null -> Null
      [] v = BooleanValue(TRUE) -> IntValue(1)
      [] OTHER -> IntValue(0)

\* the bound of the two classes of line 46
ClassBound == 150

\* lines 46-47 on the schema: the column priceClass is added, or replaced
\* where it stands, and price is dropped
WithPriceClass(schema) == Drop(WithColumn(schema, "priceClass", "int"), {"price"})

\* line 46 on the rows: the priceClass of each listing from its price
PriceClass(prices) == [k \in DOMAIN prices |-> CastInt(GreaterOrEqual(prices[k], ClassBound))]

\* the listings a table may hold: at most MaxRows rows, their prices around
\* the bound
MaxRows == 2
Prices == {Null, NaN} \cup { Double(h) : h \in {0, 14999, 15000, 15001, 30000} }
PriceLists == UNION { [1..n -> Prices] : n \in 0..MaxRows }

\* the columns a table of the pipeline notebooks may have, with the types
\* each may be of
TrainColumns == <<"price", "priceClass", "a", "aIndex", "aOHE", "b">>
TrainTypes ==
    [n \in Elements(TrainColumns) |->
        CASE n = "price" -> {"double", "string"}
          [] n = "priceClass" -> {"double"}
          [] n = "aOHE" -> {"double"}
          [] n = "b" -> {"double", "string", "int"}
          [] OTHER -> {"double", "string"}]

\* lines 42-48: the listings are read and labelled
LabelListings ==
    /\ out.at = "start"
    /\ "price" \in Names(df.schema)
    /\ out' = [at |-> "labelled",
               airbnb_df |-> [schema |-> WithPriceClass(df.schema),
                              priceClass |-> PriceClass(df.price)]]
    /\ UNCHANGED <<df, world>>

\* col("price") names no column of the table: the cell raises
LabelFails ==
    /\ out.at = "start"
    /\ "price" \notin Names(df.schema)
    /\ out' = [out EXCEPT !.at = "failed"]
    /\ UNCHANGED <<df, world>>

LabelInit ==
    /\ NoNotebook
    /\ df \in [schema : { s \in Schemas(TrainColumns, TrainTypes) :
                              \A k \in DOMAIN s : s[k].name = "price" => s[k].dataType = "double" },
                price : PriceLists]
    /\ out = [at |-> "start", airbnb_df |-> [schema |-> <<>>, priceClass |-> <<>>]]
LabelNext ==
    \/ LabelListings
    \/ LabelFails
LabelSpec == LabelInit /\ [][LabelNext]_vars

\* C20: in the Hyperparameter Tuning Lab the priceClass of a listing is 0
\* when its price is under 150 and 1 when its price is 150 or more, 150
\* itself giving 1, and the labelled data has no column price.
C20_PriceClassByBound ==
    out.at = "labelled" =>
        /\ "price" \notin Names(out.airbnb_df.schema)
        /\ Field("priceClass", "int") \in Elements(out.airbnb_df.schema)
        /\ Len(out.airbnb_df.priceClass) = Len(df.price)
        /\ \A k \in DOMAIN df.price :
              df.price[k][1] = "double" =>
                 /\ df.price[k][2] < 15000 => out.airbnb_df.priceClass[k] = IntValue(0)
                 /\ df.price[k][2] >= 15000 => out.airbnb_df.priceClass[k] = IntValue(1)

\* listings of price 149.99 and 150.00 were labelled 0 and 1
C20_Witness ==
    /\ out.at = "labelled"
    /\ df.price = <<Double(14999), Double(15000)>>
    /\ out.airbnb_df.priceClass = <<IntValue(0), IntValue(1)>>
    /\ "price" \in Names(df.schema)

(***************************************************************************)
(* The assembler inputs of the pipeline notebooks: "ML 06 - Decision       *)
(* Trees.py" lines 44-62, "ML 07 - Random Forests and Hyperparameter       *)
(* Tuning.py" lines 32-38, "Solutions/ML 03 - Linear Regression II.py"     *)
(* lines 56-75, "Solutions/Labs/ML 07L - Hyperparameter Tuning Lab.py"     *)
(* lines 52-58.                                                            *)
(***************************************************************************)
PipelineNotebooks ==
    {"ML 06 - Decision Trees", "ML 07 - Random Forests and Hyperparameter Tuning",
     "ML 03 - Linear Regression II", "ML 07L - Hyperparameter Tuning Lab"}

\* the label column of a notebook
LabelCol(nb) == IF nb = "ML 07L - Hyperparameter Tuning Lab" THEN "priceClass" ELSE "price"

\* [field for (field, dataType) in train_df.dtypes if dataType == "string"]
categorical_cols(dtypes) ==
    LET IsString(x) == x.dataType = "string" IN Columns(SelectSeq(dtypes, IsString))

\* [x + "Index" for x in categorical_cols]
index_output_cols(cols) == [k \in DOMAIN cols |-> cols[k] \o "Index"]

\* [x + "OHE" for x in categorical_cols]
ohe_output_cols(cols) == [k \in DOMAIN cols |-> cols[k] \o "OHE"]

\* [field for (field, dataType) in train_df.dtypes
\*  if ((dataType == "double") & (field != label))]
numeric_cols_but(dtypes, label) ==
    LET IsNumeric(x) == x.dataType = "double" /\ x.name # label
    IN Columns(SelectSeq(dtypes, IsNumeric))

\* the columns the notebook derives from the string columns and gives to
\* the assembler: the one-hot columns in Linear Regression II, the index
\* columns in the other notebooks
derived_cols(nb, cols) ==
    IF nb = "ML 03 - Linear Regression II" THEN ohe_output_cols(cols)
    ELSE index_output_cols(cols)

\* assembler_inputs = index_output_cols + numeric_cols
\* (ohe_output_cols + numeric_cols in Linear Regression II)
assembler_inputs(nb, dtypes) ==
    derived_cols(nb, categorical_cols(dtypes)) \o numeric_cols_but(dtypes, LabelCol(nb))

\* the table is read; the Hyperparameter Tuning Lab labels it
ReadTrain ==
    /\ out.at = "start"
    /\ df.notebook = "ML 07L - Hyperparameter Tuning Lab" =>
          Field("price", "double") \in Elements(df.schema)
    /\ out' = [out EXCEPT
                 !.at = "read",
                 !.dtypes = IF df.notebook = "ML 07L - Hyperparameter Tuning Lab"
                            THEN WithPriceClass(df.schema) ELSE df.schema]
    /\ UNCHANGED <<df, world>>

\* the cells that derive the lists of columns
DeriveInputs ==
    /\ out.at = "read"
    /\ out' = [out EXCEPT
                 !.at = "derived",
                 !.categorical_cols = categorical_cols(out.dtypes),
                 !.assembler_inputs = assembler_inputs(df.notebook, out.dtypes)]
    /\ UNCHANGED <<df, world>>

DeriveInit ==
    /\ NoNotebook
    /\ df \in [notebook : PipelineNotebooks, schema : Schemas(TrainColumns, TrainTypes)]
    /\ out = [at |-> "start", dtypes |-> <<>>, categorical_cols |-> <<>>,
              assembler_inputs |-> <<>>]
DeriveNext ==
    \/ ReadTrain
    \/ DeriveInputs
DeriveSpec == DeriveInit /\ [][DeriveNext]_vars

\* how often a name stands in a list
Count(list, x) == Cardinality({ k \in DOMAIN list : list[k] = x })

\* the fields of a type
FieldsOf(dtypes, dataType) == { f \in Elements(dtypes) : f.dataType = dataType }

\* the suffix of the derived columns of a notebook
Suffix(nb) == IF nb = "ML 03 - Linear Regression II" THEN "OHE" ELSE "Index"

\* C17: for every training schema the assembler input list does not hold
\* the label column, holds exactly one derived column (name + "Index", or
\* name + "OHE" in the one-hot notebook) for each string column, and holds
\* each double column other than the label exactly once.
C17_AssemblerInputsExact ==
    out.at = "derived" =>
        LET label == LabelCol(df.notebook)
            inputs == out.assembler_inputs
        IN /\ label \notin Elements(inputs)
           /\ \A f \in FieldsOf(out.dtypes, "string") :
                 Count(inputs, f.name \o Suffix(df.notebook)) = 1
           /\ \A f \in FieldsOf(out.dtypes, "double") :
                 f.name # label => Count(inputs, f.name) = 1

(***************************************************************************)
(* The latest version of a model, looked up on its own: lines 356-357 of   *)
(* the MLflow Lab and 278-279 of the Model Registry notebook, for a model  *)
(* with any number of versions.  The version of a ModelVersion is a str    *)
(* when the client got it from the REST service and an int when it got it  *)
(* from a database of its own.                                             *)
(***************************************************************************)
\* version n as a client reports it
VersionAs(type, n) == IF type = "int" THEN PyInt(n) ELSE VersionValue(n)

\* the versions 1..n, beginning with version first and going round
Rotated(n, first) == [k \in 1..n |-> ((first + k - 2) % n) + 1]

\* search_model_versions and max
TakeLatest ==
    /\ out.at = "start"
    /\ out' = [at |-> "taken",
               new_model_version |->
                   PyMax([k \in DOMAIN df.versions |-> VersionAs(df.type, df.versions[k])])]
    /\ UNCHANGED <<df, world>>

\* the next cell describes the version
UpdateLatest ==
    /\ out.at = "taken"
    /\ out' = [out EXCEPT !.at = "updated"]
    /\ UNCHANGED <<df, world>>

LatestInit ==
    /\ NoNotebook
    /\ \E n \in 1..MaxExisting, first \in 1..MaxExisting, type \in {"str", "int"} :
          /\ first <= n
          /\ df = [versions |-> Rotated(n, first), type |-> type]
    /\ out = [at |-> "start", new_model_version |-> Omitted]
LatestNext ==
    \/ TakeLatest
    \/ UpdateLatest
LatestSpec == LatestInit /\ [][LatestNext]_vars

\* C18: new_model_version is the version of the model created last, the
\* one of the greatest number, however many versions the model has.
C18_LatestIsGreatestNumber ==
    out.at # "start" =>
        /\ VersionNumber(out.new_model_version) \in Elements(df.versions)
        /\ \A k \in DOMAIN df.versions :
              df.versions[k] <= VersionNumber(out.new_model_version)

(***************************************************************************)
(* Properties of the Feature Store notebook's model.                       *)
(***************************************************************************)
\* C19: in the Feature Store notebook, whether the model name was absent
\* or left registered by an earlier execution, the version 1 that
\* score_batch loads is the model that train_model logged in this
\* execution.
C19_ScoresModelOfThisExecution ==
    script = "ML 10 - Feature Store" =>
        \A k \in DOMAIN issued :
            (issued[k].op = "fs.score_batch" /\ issued[k].ok) =>
                issued[k].before[1].logged_by = ThisExecution

(***************************************************************************)
(* Properties of the order of requests and waits in the MLflow Lab.        *)
(***************************************************************************)
\* the entries of the history that are stage transitions, calls of
\* wait_for_model, and requests that change the registry
TransitionAt(k) == issued[k].op = "transition_model_version_stage"
WaitAt(k) == issued[k].op = "wait_for_model"
ChangeAt(k) == ~WaitAt(k) /\ issued[k].op # "fs.score_batch"

\* the call of wait_for_model at entry w is for the version and the stage
\* of the transition at entry k
WaitsFor(w, k) ==
    /\ WaitAt(w)
    /\ issued[w].version = issued[k].version
    /\ issued[w].stage = issued[k].stage

\* C21: in the MLflow Lab every transition_model_version_stage request is
\* followed, before the next request that changes the registry, by a call
\* of wait_for_model for the same version and the requested stage, and
\* once such a call has raised no transition, update or delete request is
\* issued any more.
C21_WaitAfterEveryTransition ==
    script = "ML 05L - MLflow Lab" =>
        /\ \A k \in DOMAIN issued :
              (TransitionAt(k) /\ k < Len(issued)) => WaitsFor(k + 1, k)
        /\ \A k \in DOMAIN issued, j \in DOMAIN issued :
              (TransitionAt(k) /\ k < j /\ ChangeAt(j)) =>
                  \E w \in (k + 1)..(j - 1) : WaitsFor(w, k) /\ issued[w].ok
        /\ outcome = "done" =>
              \A k \in DOMAIN issued :
                  TransitionAt(k) => \E w \in DOMAIN issued : w > k /\ WaitsFor(w, k)
        /\ \A w \in DOMAIN issued :
              (WaitAt(w) /\ ~issued[w].ok) =>
                  /\ \A j \in DOMAIN issued : j > w => ~ChangeAt(j)
                  /\ outcome = "failed" /\ trace[Len(trace)].ok = FALSE

\* the Lab moved version 1 to Staging and waited for it, moved the new
\* version to Production, and the call of line 388 raised: the notebook
\* stopped there
C21_Witness ==
    /\ script = "ML 05L - MLflow Lab" /\ outcome = "failed"
    /\ \E k \in DOMAIN issued :
          /\ issued[k].line = 169 /\ issued[k].ok
          /\ issued[k + 1].line = 198 /\ issued[k + 1].ok
    /\ Len(issued) > 2
    /\ issued[Len(issued) - 1].line = 380 /\ issued[Len(issued) - 1].ok
    /\ issued[Len(issued)].line = 388 /\ ~issued[Len(issued)].ok

(***************************************************************************)
(* Properties of wait_for_model at the ends of range(timeout).             *)
(***************************************************************************)
\* C22: a call of wait_for_model with timeout <= 0 makes no fetch and no
\* sleep and does not return: it raises the timeout error, whose message
\* gives the last state as unknown/unknown, also when the registry would
\* have answered the target state to the first fetch.
C22_NoFetchWithoutTimeout ==
    (wf_pc # "idle" /\ timeout <= 0) =>
        /\ fetches = 0 /\ attempts = 0 /\ sleeps = 0
        /\ lastObs = NoObservation /\ matchAt = 0
        /\ wf_pc \in {"loop", "raised"}
        /\ wf_pc = "loop" => exception = NoException
        /\ wf_pc = "raised" =>
              /\ exception[1] = "Exception"
              /\ exception[2].last_status = "unknown"
              /\ exception[2].last_stage = "unknown"
              /\ exception[2].timeout = timeout

\* a call for (Staging, READY) with timeout 0 has raised, and its cell has
\* ended with the error
C22_Witness ==
    /\ wf_pc = "raised" /\ timeout = 0 /\ outcome = "failed"
    /\ stage = PyStr("Staging") /\ status = PyStr("READY")
    /\ fetches = 0 /\ sleeps = 0
    /\ exception[2].last_stage = "unknown"

\* C23: when the first fetch that reports the target pair is the
\* timeout-th, the call returns after exactly timeout fetches and does not
\* raise; a call that is over has raised exactly when none of the fetches
\* it made, at most timeout, reported the target pair, and the timeout
\* error comes only after timeout fetches without one.
C23_ReturnsAtLastFetch ==
    /\ (1 <= matchAt /\ matchAt = timeout) =>
          /\ wf_pc = "returned"
          /\ fetches = timeout /\ attempts = timeout /\ sleeps = timeout - 1
          /\ exception = NoException
    /\ Over => (wf_pc \in {"raised", "propagated"} <=> matchAt = 0)
    /\ Over => (fetches <= timeout \/ fetches = 0)
    /\ (wf_pc = "raised" /\ timeout >= 1) => (fetches = timeout /\ matchAt = 0)

\* the call with timeout 5 whose fifth fetch was the first to report
\* (Staging, READY) has returned
C23_Witness ==
    /\ timeout = 5 /\ matchAt = 5 /\ wf_pc = "returned" /\ fetches = 5 /\ sleeps = 4
    /\ stage = PyStr("Staging") /\ status = PyStr("READY")

============================================================================
